---- MODULE Spec2Model ----
(***************************************************************************)
(* Model of the Cloudflare load-balancer monitor: the Dashboard poll loop  *)
(* (src/unnamed/part_000, lines 230-316), its pool fetcher (lines 195-228),*)
(* the per-origin health diff (lines 254-278) and the cue playback of      *)
(* src/unnamed/part_001.                                                    *)
(*                                                                         *)
(* One action is one browser task: the code that runs from a timer tick, a *)
(* settled network or audio promise, or a React commit up to the next      *)
(* await whose promise is settled by a later task.                         *)
(***************************************************************************)
EXTENDS Integers, Sequences, FiniteSets, TLC

VARIABLES
    mounted,        \* a Dashboard instance is rendered (App.tsx haveCreds)
    soundEnabled,   \* useState, part_000:234
    pools,          \* useState, part_000:231
    loading,        \* useState, part_000:232
    err,            \* useState, part_000:233
    prevStatusRef,  \* useRef,   part_000:237 (key -> tri-state health)
    firstLoadRef,   \* useRef,   part_000:238
    act,            \* number of effect activations so far; the newest is act
    alive,          \* activations whose closure variable alive is true
    aborted,        \* activations whose AbortController was aborted
    timers,         \* activations whose interval is still set
    actSound,       \* soundEnabled as captured by each activation's closure
    instStart,      \* first activation of the Dashboard instance now mounted
    cyc,            \* the calls of load, one record each
    nCyc,           \* number of calls of load so far
    audioCtx,       \* _audioCtx of part_001: "null", "suspended", "running"
    audioAvail,     \* whether the AudioContext constructor works here
    sounding,       \* oscillators started (part_001:29) and not yet stopped
    lastItems,      \* history: the list the newest diff step ran on
    lastEvents,     \* history: its transitions, each with its origin key
    call,           \* a call of fetchAllPools observed on its own
    resps,          \* history: the responses that call got
    token,          \* CredentialsForm useState, CredentialsForm.tsx:32
    accountId,      \* CredentialsForm useState, CredentialsForm.tsx:33
    formErr,        \* CredentialsForm useState err, CredentialsForm.tsx:34
    creds           \* App useState, App.tsx:45

compVars  == <<mounted, soundEnabled, pools, loading, err>>
refVars   == <<prevStatusRef, firstLoadRef>>
effVars   == <<act, alive, aborted, timers, actSound, instStart>>
cycVars   == <<cyc, nCyc>>
audioVars == <<audioCtx, audioAvail, sounding>>
histVars  == <<lastItems, lastEvents>>
callVars  == <<call, resps>>
formVars  == <<token, accountId, formErr, creds>>
vars == <<compVars, refVars, effVars, cycVars, audioVars, histVars, callVars,
formVars>>

(***************************************************************************)
(* Bounds of the model.                                                    *)
(***************************************************************************)
MaxActs    == 2   \* effect activations in one run
MaxCycles  == 3   \* calls of load in one run
MaxPages   == 3   \* largest total_pages a response reports
MaxOrigins == 2   \* origins of a pool in the diff inputs
MaxEvents  == 3   \* origins of the pool in the notification runs
MaxIdLen   == 11  \* characters typed into the Account ID field
MaxTokenLen == 2  \* characters typed into the API Token field
MaxRequests == 5  \* page requests of one call of part_002's fetchAllPools

perPage == 50

MinAccountLen == 10

(***************************************************************************)
(* Data: tri-state health, origins, pools.                                 *)
(***************************************************************************)
Health  == {"true", "false", "undefined"}
Boolean == {"true", "false"}

Origin(name, address, healthy) ==
    [name |-> name, address |-> address, healthy |-> healthy]

Pool(id, origins) == [id |-> id, origins |-> origins]

EmptyMap == [k \in {} |-> "undefined"]

\* Map.get: an absent key reads as undefined.
MapGet(m, k) == IF k \in DOMAIN m THEN m[k] ELSE "undefined"

MapSet(m, k, v) == [x \in DOMAIN m \cup {k} |-> IF x = k THEN v ELSE m[x]]

\* `${p.id}/${o.name || o.address || String(idx)}`; "" stands for a missing
\* or empty string, both falsy.
Key(p, o, idx) ==
    p.id \o "/" \o (IF o.name # "" THEN o.name
                    ELSE IF o.address # "" THEN o.address
                    ELSE ToString(idx))

\* The origins in the order of the two nested forEach loops.
PoolEntries(p) ==
    [i \in 1..Len(p.origins) |->
        [key |-> Key(p, p.origins[i], i - 1), cur |-> p.origins[i].healthy]]

RECURSIVE Entries(_)
Entries(items) ==
    IF items = <<>> THEN <<>>
    ELSE PoolEntries(Head(items)) \o Entries(Tail(items))

\* The condition of the if at part_000:266-270.
ShouldEmitAlways(first, prev, cur) == prev # cur /\ cur \in Boolean

ShouldEmit(first, prev, cur) == ~first /\ prev # cur /\ cur \in Boolean

EventKind(cur) == IF cur = "true" THEN "online" ELSE "offline"

\* The loop body, folded over the entries: prev is read from the held
\* snapshot, the new value goes to nextMap.  An event carries, as history,
\* the key and the place (pos, in forEach order) of the origin it is for.
RECURSIVE DiffFold(_, _, _, _)
DiffFold(prevMap, first, es, acc) ==
    IF es = <<>> THEN acc
    ELSE LET e    == Head(es)
             prev == MapGet(prevMap, e.key)
             ev   == IF ShouldEmit(first, prev, e.cur)
                     THEN <<[key |-> e.key, kind |-> EventKind(e.cur),
                             pos |-> acc.n + 1]>>
                     ELSE <<>>
         IN DiffFold(prevMap, first, Tail(es),
                     [events  |-> acc.events \o ev,
                      nextMap |-> MapSet(acc.nextMap, e.key, e.cur),
                      n       |-> acc.n + 1])

DiffStepMerging(prevMap, first, items) ==
    DiffFold(prevMap, first, Entries(items),
             [events |-> <<>>, nextMap |-> prevMap, n |-> 0])

DiffStep(prevMap, first, items) ==
    DiffFold(prevMap, first, Entries(items),
             [events |-> <<>>, nextMap |-> EmptyMap, n |-> 0])

\* The array `changes` holds the kinds only.
Kinds(events) == [i \in 1..Len(events) |-> events[i].kind]

CountKind(changes, kind) ==
    Cardinality({i \in 1..Len(changes) : changes[i] = kind})

(***************************************************************************)
(* fetchAllPools (part_000:195-228).  A call is a record: the page being   *)
(* requested, the accumulator, how the call stands, the error it threw,    *)
(* and as history the requests it issued.  The                             *)
(* await of fetch and the await of res.json()/res.text() that follows it   *)
(* touch no shared state in between and are settled as one response.       *)
(***************************************************************************)
Request(page, signal) == [page |-> page, per_page |-> perPage, signal |-> signal]

NoError   == [name |-> "", message |-> ""]
ErrHTTP   == [name |-> "Error", message |-> "HTTP 403: Forbidden"]
ErrAPI    == [name |-> "Error", message |-> "API error: {}"]
ErrNet    == [name |-> "TypeError", message |-> "Failed to fetch"]
ErrAbort  == [name |-> "AbortError", message |-> "The user aborted a request."]
ErrAudio  == [name |-> "TypeError", message |-> "AudioContext is not a constructor"]

\* part_000:187-192
isAbortError(e) == e.name = "AbortError"

\* A settled page request.  kind: "ok" (2xx, success=true), "http" (non-2xx),
\* "api" (success=false), "net" (fetch rejects), "abort" (fetch rejects with
\* AbortError).  hasTotal is false when result_info.total_pages is omitted.
Response(kind, result, hasTotal, total) ==
    [kind |-> kind, result |-> result, hasTotal |-> hasTotal, total_pages |-> total]

Failure(kind) == Response(kind, <<>>, FALSE, 0)

ThrownBy(r) ==
    CASE r.kind = "http"  -> ErrHTTP
      [] r.kind = "api"   -> ErrAPI
      [] r.kind = "net"   -> ErrNet
      [] r.kind = "abort" -> ErrAbort
      [] OTHER            -> NoError

\* part_000:200-209: the call up to its first await.
FetchStart(signal) ==
    [page |-> 1, all |-> <<>>, status |-> "pending", error |-> NoError,
     reqs |-> <<Request(1, signal)>>]

NotCalled ==
    [page |-> 0, all |-> <<>>, status |-> "idle", error |-> NoError,
     reqs |-> <<>>]

\* part_000:222: data.result_info?.total_pages || 1
TotalPages(r) == IF r.hasTotal /\ r.total_pages # 0 THEN r.total_pages ELSE 1

\* part_000:220
PushFront(all, result) == result \o all

PushAll(all, result) == all \o result

\* part_000:211-225: from a settled request to the next await, the return or
\* the throw.
FetchOnResponseUnchecked(f, r) ==
    LET all == PushAll(f.all, r.result)
    IN IF f.page >= TotalPages(r)
       THEN [f EXCEPT !.all = all, !.status = "returned"]
       ELSE [f EXCEPT !.all = all, !.page = f.page + 1,
                      !.reqs = Append(f.reqs,
                          Request(f.page + 1, f.reqs[1].signal))]

FetchOnResponse(f, r) ==
    IF r.kind # "ok"
    THEN [f EXCEPT !.status = "thrown", !.error = ThrownBy(r)]
    ELSE LET all == PushAll(f.all, r.result)
         IN IF f.page >= TotalPages(r)
            THEN [f EXCEPT !.all = all, !.status = "returned"]
            ELSE [f EXCEPT !.all = all, !.page = f.page + 1,
                           !.reqs = Append(f.reqs,
                               Request(f.page + 1, f.reqs[1].signal))]

(***************************************************************************)
(* Cue playback (part_001) as load drives it (part_000:287-290).           *)
(***************************************************************************)
Repeat(x, n) == [i \in 1..n |-> x]

\* The playBeep calls of one notification, in order: one per offline cue
\* (part_001:39-42), two per online cue (part_001:33-37).
CueProgramInEventOrder(changes) ==
    IF changes = <<>> THEN <<>>
    ELSE LET SeqOf(c) == IF c = "offline" THEN <<"off">> ELSE <<"on1", "on2">>
             F[i \in 0..Len(changes)] ==
                 IF i = 0 THEN <<>> ELSE F[i - 1] \o SeqOf(changes[i])
         IN F[Len(changes)]

CueProgram(changes) ==
    Repeat("off", CountKind(changes, "offline"))
    \o [i \in 1..(2 * CountKind(changes, "online")) |->
            IF i % 2 = 1 THEN "on1" ELSE "on2"]

StartsCue(b) == b \in {"off", "on1"}
EndsCue(b)   == b \in {"off", "on2"}
CueOf(b)     == IF b = "off" THEN "offline" ELSE "online"

\* The playBeep calls made from beep bi on, until one of them awaits
\* ctx.resume() (part_001:17-21) or the program ends.  A beep on a context
\* that is not suspended starts its oscillator and returns without waiting
\* for a later task (part_001:22-30).
RECURSIVE RunBeeps(_, _, _, _, _)
RunBeeps(ctx, prog, bi, cues, ret) ==
    IF bi > Len(prog)
    THEN [wait |-> FALSE, bi |-> bi, cues |-> cues, ret |-> ret]
    ELSE LET b     == prog[bi]
             cues2 == IF StartsCue(b) THEN Append(cues, CueOf(b)) ELSE cues
         IN IF ctx = "suspended"
            THEN [wait |-> TRUE, bi |-> bi, cues |-> cues2, ret |-> ret]
            ELSE RunBeeps(ctx, prog, bi + 1, cues2,
                          IF EndsCue(b) THEN ret + 1 ELSE ret)

\* The oscillators a run of playBeep calls started (part_001:22-30): one for
\* each call, from beep `from` on, that got past its await.
OscStarted(from, run) == run.bi - from

\* A settled ctx.resume(): resolved, the context runs; rejected, it stays.
AfterResume(ctx, outcome) == IF outcome = "resolve" THEN "running" ELSE ctx

(***************************************************************************)
(* The calls of load (part_000:245-300).  pc is the await the call is at:  *)
(* "fetch" (line 206 or 215), "resume" (line 283), "beep" (part_001:19,    *)
(* reached through lines 289-290), or "done".  History fields: diffed (the *)
(* call ran the diff step), cues (the cue calls it made, in order), ret    *)
(* (how many of them returned), outcome.                                   *)
(***************************************************************************)
IdleCycle ==
    [act |-> 0, pc |-> "idle", f |-> NotCalled, changes |-> <<>>, bi |-> 0,
     cues |-> <<>>, ret |-> 0, diffed |-> FALSE, outcome |-> ""]

\* A finished call keeps its history; its locals are gone.
Done(rec, outcome) ==
    [rec EXCEPT !.pc = "done", !.outcome = outcome, !.f = NotCalled, !.bi = 0]

Cycles == 1..MaxCycles
Acts   == 1..MaxActs

InFlight(c) == cyc[c].pc \in {"fetch", "resume", "beep"}

\* load() called: fetchAllPools runs to its first await (part_000:245-251).
StartLoad(a) ==
    /\ nCyc < MaxCycles
    /\ nCyc' = nCyc + 1
    /\ cyc' = [cyc EXCEPT ![nCyc + 1] =
                  [IdleCycle EXCEPT !.act = a, !.pc = "fetch", !.f = FetchStart(a)]]

\* The cleanup of the effect (part_000:311-315).
AliveAfterCleanup(a)   == alive \ {a}
AbortedAfterCleanup(a) == aborted \cup {a}
TimersAfterCleanupKept(a) == timers

TimersAfterCleanup(a)  == timers \ {a}

(***************************************************************************)
(* Initial state: the App shows the credential form, no Dashboard yet.     *)
(***************************************************************************)
Init ==
    /\ mounted = FALSE
    /\ soundEnabled = FALSE
    /\ pools = <<>>
    /\ loading = TRUE
    /\ err = ""
    /\ prevStatusRef = EmptyMap
    /\ firstLoadRef = TRUE
    /\ act = 0
    /\ alive = {}
    /\ aborted = {}
    /\ timers = {}
    /\ actSound = [a \in Acts |-> FALSE]
    /\ instStart = 1
    /\ cyc = [c \in Cycles |-> IdleCycle]
    /\ nCyc = 0
    /\ audioCtx = "null"
    /\ audioAvail \in BOOLEAN
    /\ sounding = 0
    /\ lastItems = <<>>
    /\ lastEvents = <<>>
    /\ call = NotCalled
    /\ resps = <<>>
    /\ token = <<>>
    /\ accountId = <<>>
    /\ formErr = ""
    /\ creds = [token |-> <<>>, accountId |-> <<>>]

(***************************************************************************)
(* React commits.                                                          *)
(***************************************************************************)
\* Credentials saved (App.tsx:55-59, 71-76): a Dashboard instance mounts with
\* fresh state and refs (part_000:231-238) and its effect runs (240-309).
Mount ==
    /\ ~mounted
    /\ act < MaxActs
    /\ mounted' = TRUE
    /\ soundEnabled' = FALSE
    /\ pools' = <<>>
    /\ loading' = TRUE
    /\ err' = ""
    /\ prevStatusRef' = EmptyMap
    /\ firstLoadRef' = TRUE
    /\ act' = act + 1
    /\ alive' = alive \cup {act + 1}
    /\ timers' = timers \cup {act + 1}
    /\ actSound' = [actSound EXCEPT ![act + 1] = FALSE]
    /\ instStart' = act + 1
    /\ StartLoad(act + 1)
    /\ UNCHANGED <<aborted, audioVars, histVars, callVars, formVars>>

\* The sound button (part_000:329-336): soundEnabled flips, the click handler
\* creates the audio context if it can; the commit runs the old effect's
\* cleanup (311-315) and the effect again (241-309).
ToggleSound ==
    /\ mounted
    /\ act < MaxActs
    /\ soundEnabled' = ~soundEnabled
    /\ audioCtx' = IF audioCtx = "null" /\ audioAvail THEN "suspended" ELSE audioCtx
    /\ loading' = TRUE
    /\ err' = ""
    /\ prevStatusRef' = EmptyMap
    /\ firstLoadRef' = TRUE
    /\ act' = act + 1
    /\ alive' = AliveAfterCleanup(act) \cup {act + 1}
    /\ aborted' = AbortedAfterCleanup(act)
    /\ timers' = TimersAfterCleanup(act) \cup {act + 1}
    /\ actSound' = [actSound EXCEPT ![act + 1] = ~soundEnabled]
    /\ StartLoad(act + 1)
    /\ UNCHANGED <<mounted, pools, instStart, audioAvail, sounding, histVars,
                   callVars, formVars>>

\* Logout (App.tsx:61-65): the Dashboard unmounts, its cleanup runs.
Logout ==
    /\ mounted
    /\ mounted' = FALSE
    /\ alive' = AliveAfterCleanup(act)
    /\ aborted' = AbortedAfterCleanup(act)
    /\ timers' = TimersAfterCleanup(act)
    /\ instStart' = act + 1
    /\ UNCHANGED <<soundEnabled, pools, loading, err, refVars, act, actSound,
                   cycVars, audioVars, histVars, callVars, formVars>>

\* window.setInterval(load, 10000) fires (part_000:309).
Tick ==
    \E a \in timers :
        /\ StartLoad(a)
        /\ UNCHANGED <<compVars, refVars, effVars, audioVars, histVars, callVars,
                       formVars>>

(***************************************************************************)
(* The continuations of load.                                              *)
(***************************************************************************)
\* The pool lists a page of the API holds in the poll-loop runs: one pool
\* with two named origins, in its two opposite health states.
PoolX == Pool("p1", <<Origin("a", "", "true"), Origin("b", "", "false")>>)
PoolY == Pool("p1", <<Origin("a", "", "false"), Origin("b", "", "true")>>)
MainBodies == {<<PoolX>>, <<PoolY>>}

\* What a page request of activation a can settle as: a page that is the
\* only or last one (total_pages omitted), a page of two, a failure.  A
\* request whose signal was aborted can also reject with AbortError.
Responses(a) ==
    {Response("ok", b, FALSE, 0) : b \in MainBodies}
    \cup {Response("ok", <<PoolX>>, TRUE, 2)}
    \cup {Failure(k) : k \in {"http", "api"}}
    \cup (IF a \in aborted THEN {Failure("abort")} ELSE {})

\* catch and finally of load (part_000:294-299), entered with error e.
ErrAfterCatchSwallowing(a, e) == err

ErrAfterCatch(a, e) ==
    IF a \in alive /\ ~isAbortError(e) THEN e.message ELSE err

LoadingAfterFinally(a) == IF a \in alive THEN FALSE ELSE loading

CatchFinallyClearingPools(c, rec, e) ==
    /\ err' = ErrAfterCatch(rec.act, e)
    /\ loading' = LoadingAfterFinally(rec.act)
    /\ pools' = <<>>
    /\ cyc' = [cyc EXCEPT ![c] =
                  Done(rec, IF rec.act \in alive /\ ~isAbortError(e)
                            THEN "failed" ELSE "dropped")]
    /\ UNCHANGED <<mounted, soundEnabled>>

CatchFinally(c, rec, e) ==
    /\ err' = ErrAfterCatch(rec.act, e)
    /\ loading' = LoadingAfterFinally(rec.act)
    /\ cyc' = [cyc EXCEPT ![c] =
                  Done(rec, IF rec.act \in alive /\ ~isAbortError(e)
                            THEN "failed" ELSE "dropped")]
    /\ UNCHANGED <<mounted, soundEnabled, pools>>

\* setPools(items) and finally (part_000:293, 297-299).  A setter of an
\* unmounted instance changes nothing that is rendered.
Commit(c, rec) ==
    /\ pools' = IF rec.act >= instStart THEN rec.f.all ELSE pools
    /\ loading' = LoadingAfterFinally(rec.act)
    /\ cyc' = [cyc EXCEPT ![c] = Done(rec, "committed")]
    /\ UNCHANGED <<mounted, soundEnabled, err>>

\* The cue loops from a run of playBeep calls on: wait at an awaited resume,
\* or go on to setPools.
AfterRunNotAwaited(c, rec, run) ==
    Commit(c, [rec EXCEPT !.cues = run.cues, !.ret = run.ret, !.bi = run.bi])

AfterRun(c, rec, run) ==
    LET rec2 == [rec EXCEPT !.cues = run.cues, !.ret = run.ret, !.bi = run.bi]
    IN IF run.wait
       THEN /\ cyc' = [cyc EXCEPT ![c] = [rec2 EXCEPT !.pc = "beep"]]
            /\ UNCHANGED compVars
       ELSE Commit(c, rec2)

\* part_000:252: the check after the awaited fetch.
ReturnsEarlyNever(a) == FALSE

ReturnsEarly(a) == a \notin alive

\* part_000:281
NotifiesAlways(a, changes) == changes # <<>>

Notifies(a, changes) == actSound[a] /\ changes # <<>>

\* part_000:254-293 for a live activation, up to the first await: the diff,
\* the snapshot swap, and either the start of the notification or setPools.
DiffAndNotify(c, rec) ==
    LET d       == DiffStep(prevStatusRef, firstLoadRef, rec.f.all)
        changes == Kinds(d.events)
        rec2    == [rec EXCEPT !.changes = changes, !.diffed = TRUE]
    IN /\ prevStatusRef' = d.nextMap
       /\ firstLoadRef' = FALSE
       /\ IF Notifies(rec.act, changes)
          THEN IF audioCtx = "null" /\ ~audioAvail
               THEN \* getAudioCtx throws: caught at 284 for the resume, and
                    \* thrown out of the first cue call into the catch at 294.
                    /\ CatchFinally(c,
                          [rec2 EXCEPT !.cues =
                              <<CueOf(CueProgram(changes)[1])>>], ErrAudio)
                    /\ UNCHANGED audioCtx
               ELSE /\ audioCtx' = IF audioCtx = "null" THEN "suspended"
                                   ELSE audioCtx
                    /\ cyc' = [cyc EXCEPT ![c] = [rec2 EXCEPT !.pc = "resume"]]
                    /\ UNCHANGED compVars
          ELSE /\ Commit(c, rec2)
               /\ UNCHANGED audioCtx
       /\ UNCHANGED <<audioAvail, sounding, effVars, nCyc, histVars, callVars,
                      formVars>>

\* A page request of load call c settles as r (part_000:206-225, then
\* 252-299).
LoadOnResponse(c, r) ==
    /\ cyc[c].pc = "fetch"
    /\ LET f2  == FetchOnResponse(cyc[c].f, r)
           rec == [cyc[c] EXCEPT !.f = f2]
       IN CASE f2.status = "pending" ->
                 /\ cyc' = [cyc EXCEPT ![c] = rec]
                 /\ UNCHANGED <<compVars, refVars, effVars, nCyc,
                                audioVars, histVars, callVars, formVars>>
            [] f2.status = "thrown" ->
                 /\ CatchFinally(c, rec, f2.error)
                 /\ UNCHANGED <<refVars, effVars, nCyc, audioVars,
                                histVars, callVars, formVars>>
            [] OTHER ->
                 IF ReturnsEarly(rec.act)
                 THEN /\ cyc' = [cyc EXCEPT ![c] = Done(rec, "dropped")]
                      /\ UNCHANGED <<compVars, refVars, effVars, nCyc,
                                     audioVars, histVars, callVars,
                                     formVars>>
                 ELSE DiffAndNotify(c, rec)

SettleWith(c, r) == r \in Responses(cyc[c].act) /\ LoadOnResponse(c, r)

Settle == \E c \in Cycles : \E r \in Responses(cyc[c].act) : SettleWith(c, r)

\* The awaited getAudioCtx().resume() of load settles (part_000:282-291).
ResumeSettled ==
    \E c \in Cycles, outcome \in {"resolve", "reject"} :
        /\ cyc[c].pc = "resume"
        /\ audioCtx' = AfterResume(audioCtx, outcome)
        /\ LET run == RunBeeps(audioCtx', CueProgram(cyc[c].changes), 1, <<>>, 0)
           IN /\ AfterRun(c, cyc[c], run)
              /\ sounding' = sounding + OscStarted(1, run)
        /\ UNCHANGED <<refVars, effVars, nCyc, audioAvail, histVars, callVars,
                       formVars>>

\* The ctx.resume() awaited inside playBeep settles (part_001:17-30): the
\* beep's oscillator starts, and the cue loops go on.
BeepResumeSettled ==
    \E c \in Cycles, outcome \in {"resolve", "reject"} :
        /\ cyc[c].pc = "beep"
        /\ audioCtx' = AfterResume(audioCtx, outcome)
        /\ LET prog == CueProgram(cyc[c].changes)
               bi   == cyc[c].bi
               ret  == IF EndsCue(prog[bi]) THEN cyc[c].ret + 1 ELSE cyc[c].ret
               run  == RunBeeps(audioCtx', prog, bi + 1, cyc[c].cues, ret)
           IN /\ AfterRun(c, cyc[c], run)
              /\ sounding' = sounding + OscStarted(bi, run)
        /\ UNCHANGED <<refVars, effVars, nCyc, audioAvail, histVars, callVars,
                       formVars>>

\* The browser lets a suspended context start: the resume() the click handler
\* asked for (part_000:332) takes effect.
CtxStarts ==
    /\ audioCtx = "suspended"
    /\ audioCtx' = "running"
    /\ UNCHANGED <<compVars, refVars, effVars, cycVars, audioAvail, sounding,
                   histVars, callVars, formVars>>

\* A tone reaches its stop time (part_001:30): the clock of a running
\* context advances between tasks, never within one.
ToneEnds ==
    /\ audioCtx = "running"
    /\ sounding > 0
    /\ sounding' = sounding - 1
    /\ UNCHANGED <<compVars, refVars, effVars, cycVars, audioCtx, audioAvail,
                   histVars, callVars, formVars>>

Next ==
    \/ Mount
    \/ ToggleSound
    \/ Logout
    \/ Tick
    \/ Settle
    \/ ResumeSettled
    \/ BeepResumeSettled
    \/ CtxStarts
    \/ ToneEnds

Spec == Init /\ [][Next]_vars

(***************************************************************************)
(* The diff step on its own: lines 254-278 run on any pool list, and the   *)
(* reset of an activation (lines 304-305).                                 *)
(***************************************************************************)
\* Origins of the three key shapes: named, address only, neither.
DiffOrigins ==
    {Origin("a", "x", h) : h \in Health}
    \cup {Origin("", "x", h) : h \in Boolean}
    \cup {Origin("", "", h) : h \in Boolean}

OriginLists == UNION {[1..n -> DiffOrigins] : n \in 0..MaxOrigins}

DiffLists == {<<>>} \cup {<<Pool("p1", os)>> : os \in OriginLists}

DiffPoll ==
    \E items \in DiffLists :
        LET d == DiffStep(prevStatusRef, firstLoadRef, items)
        IN /\ prevStatusRef' = d.nextMap
           /\ firstLoadRef' = FALSE
           /\ lastItems' = items
           /\ lastEvents' = d.events
           /\ UNCHANGED <<compVars, effVars, cycVars, audioVars, callVars,
                          formVars>>

Reactivate ==
    /\ firstLoadRef' = TRUE
    /\ prevStatusRef' = EmptyMap
    /\ UNCHANGED <<compVars, effVars, cycVars, audioVars, histVars, callVars,
                   formVars>>

NextDiff == DiffPoll \/ Reactivate

SpecDiff == Init /\ [][NextDiff]_vars

(***************************************************************************)
(* fetchAllPools on its own, against any server.                           *)
(***************************************************************************)
PageSizes == {0, 1, perPage}

\* The n pools of a page, each id naming its page and place.
PageBody(page, n) ==
    [i \in 1..n |-> Pool("p" \o ToString(page) \o "." \o ToString(i), <<>>)]

FetchResponses(page) ==
    {Response("ok", PageBody(page, n), FALSE, 0) : n \in PageSizes}
    \cup {Response("ok", PageBody(page, n), TRUE, t) :
              n \in PageSizes, t \in 0..MaxPages}
    \cup {Failure(k) : k \in {"http", "api", "net"}}

FetchCall ==
    /\ call.status = "idle"
    /\ call' = FetchStart(0)
    /\ resps' = <<>>
    /\ UNCHANGED <<compVars, refVars, effVars, cycVars, audioVars, histVars,
                   formVars>>

FetchSettle ==
    /\ call.status = "pending"
    /\ \E r \in FetchResponses(call.page) :
          /\ call' = FetchOnResponse(call, r)
          /\ resps' = Append(resps, r)
    /\ UNCHANGED <<compVars, refVars, effVars, cycVars, audioVars, histVars,
                   formVars>>

NextFetch == FetchCall \/ FetchSettle

SpecFetch == Init /\ [][NextFetch]_vars

(***************************************************************************)
(* The second fetchAllPools (part_002:108-157), on its own, against any    *)
(* server.  Its URL names neither page nor per_page (part_002:118-119), so *)
(* a request carries the signal only; page is the local counter.           *)
(***************************************************************************)
Request2(signal) == [signal |-> signal]

ErrHTTP2 == [name |-> "Error", message |-> "Cloudflare API error (403): Forbidden"]
ErrAPI2  == [name |-> "Error",
             message |-> "Cloudflare API returned success=false: {}"]

ThrownBy2(r) ==
    CASE r.kind = "http"  -> ErrHTTP2
      [] r.kind = "api"   -> ErrAPI2
      [] r.kind = "abort" -> ErrAbort
      [] OTHER            -> ErrNet

\* part_002:113-128
FetchStart2(signal) ==
    [page |-> 1, all |-> <<>>, status |-> "pending", error |-> NoError,
     reqs |-> <<Request2(signal)>>]

\* part_002:149-151: info.total_pages ?? (items.length < perPage ? page :
\* page + 1); a reported 0 is not nullish and is kept.
TotalPages2(r, page) ==
    IF r.hasTotal THEN r.total_pages
    ELSE IF Len(r.result) < perPage THEN page ELSE page + 1

\* part_002:130-156: from a settled request to the next await, the return
\* or the throw.
FetchOnResponse2(f, r) ==
    IF r.kind # "ok"
    THEN [f EXCEPT !.status = "thrown", !.error = ThrownBy2(r)]
    ELSE LET all == PushAll(f.all, r.result)
         IN IF f.page >= TotalPages2(r, f.page)
            THEN [f EXCEPT !.all = all, !.status = "returned"]
            ELSE [f EXCEPT !.all = all, !.page = f.page + 1,
                           !.reqs = Append(f.reqs, Request2(f.reqs[1].signal))]

FetchCall2 ==
    /\ call.status = "idle"
    /\ call' = FetchStart2(0)
    /\ resps' = <<>>
    /\ UNCHANGED <<compVars, refVars, effVars, cycVars, audioVars, histVars,
                   formVars>>

\* The server answers the pending request; the run is cut off after
\* MaxRequests answers.
FetchSettle2 ==
    /\ call.status = "pending"
    /\ Len(resps) < MaxRequests
    /\ \E r \in FetchResponses(call.page) :
          /\ call' = FetchOnResponse2(call, r)
          /\ resps' = Append(resps, r)
    /\ UNCHANGED <<compVars, refVars, effVars, cycVars, audioVars, histVars,
                   formVars>>

NextFetch2 == FetchCall2 \/ FetchSettle2

SpecFetch2 == Init /\ [][NextFetch2]_vars

(***************************************************************************)
(* The notification on its own: the poll loop against a server whose one   *)
(* pool has MaxEvents named origins, each healthy or not, and that never   *)
(* fails, so that a diff yields every mix of offline and online events.    *)
(***************************************************************************)
NotifyOrigins(h) ==
    [i \in 1..MaxEvents |-> Origin("o" \o ToString(i), "", h[i])]

NotifyBodies ==
    {<<Pool("p1", NotifyOrigins(h))>> : h \in [1..MaxEvents -> Boolean]}

SettleNotify ==
    \E c \in Cycles : \E b \in NotifyBodies :
        LoadOnResponse(c, Response("ok", b, FALSE, 0))

NextNotify ==
    \/ Mount
    \/ ToggleSound
    \/ Tick
    \/ SettleNotify
    \/ ResumeSettled
    \/ BeepResumeSettled
    \/ CtxStarts
    \/ ToneEnds

SpecNotify == Init /\ [][NextNotify]_vars

(***************************************************************************)
(* The credential form (CredentialsForm.tsx:27-55) under App (App.tsx:     *)
(* 44-59).  A string is the sequence of its characters; " " stands for     *)
(* white space and "x" for any other character.                            *)
(***************************************************************************)
Chars == {" ", "x"}

RECURSIVE TrimStart(_)
TrimStart(s) ==
    IF s # <<>> /\ Head(s) = " " THEN TrimStart(Tail(s)) ELSE s

RECURSIVE TrimEnd(_)
TrimEnd(s) ==
    IF s # <<>> /\ s[Len(s)] = " " THEN TrimEnd(SubSeq(s, 1, Len(s) - 1))
    ELSE s

\* String.prototype.trim
Trim(s) == TrimEnd(TrimStart(s))

\* App.tsx:50-53
haveCreds == creds.token # <<>> /\ creds.accountId # <<>>

\* onChangeToken, onChangeAccount (CredentialsForm.tsx:36-39): a key typed
\* at the end of the field.
ChangeToken ==
    /\ ~haveCreds
    /\ Len(token) < MaxTokenLen
    /\ \E ch \in Chars : token' = Append(token, ch)
    /\ UNCHANGED <<accountId, formErr, creds>>
    /\ UNCHANGED <<compVars, refVars, effVars, cycVars, audioVars, histVars,
                   callVars>>

ChangeAccount ==
    /\ ~haveCreds
    /\ Len(accountId) < MaxIdLen
    /\ \E ch \in Chars : accountId' = Append(accountId, ch)
    /\ UNCHANGED <<token, formErr, creds>>
    /\ UNCHANGED <<compVars, refVars, effVars, cycVars, audioVars, histVars,
                   callVars>>

\* The length test of submit (CredentialsForm.tsx:49).
TooShort(id) == Len(id) < MinAccountLen

\* submit (CredentialsForm.tsx:41-55), with handleSave (App.tsx:55-59) for
\* onSave.
Submit ==
    /\ ~haveCreds
    /\ IF Trim(token) = <<>> \/ Trim(accountId) = <<>>
       THEN formErr' = "Both fields are required" /\ UNCHANGED creds
       ELSE IF TooShort(accountId)
       THEN formErr' = "Account ID looks too short." /\ UNCHANGED creds
       ELSE /\ formErr' = ""
            /\ creds' = [token |-> Trim(token), accountId |-> Trim(accountId)]
    /\ UNCHANGED <<token, accountId>>
    /\ UNCHANGED <<compVars, refVars, effVars, cycVars, audioVars, histVars,
                   callVars>>

NextForm == ChangeToken \/ ChangeAccount \/ Submit

SpecForm == Init /\ [][NextForm]_vars

(***************************************************************************)
(* What is rendered (part_000:346-370).                                    *)
(***************************************************************************)
View == IF loading THEN "spinner" ELSE IF err # "" THEN "error" ELSE "table"

(***************************************************************************)
(* Properties of the poll loop.                                            *)
(***************************************************************************)

\* C1: a call of load whose activation was torn down while its fetch was in
\* flight changes nothing when that fetch settles, whatever it settles as:
\* pools, err, loading, the snapshot and the first-load flag keep their
\* values, the call makes no cue call, and it ends without surfacing an
\* error (it goes on fetching or is dropped).
C1_TornDownFetchIsSilent ==
    [][\A c \in Cycles :
          (cyc[c].pc = "fetch" /\ cyc[c].act \notin alive /\ cyc'[c] # cyc[c])
          => /\ UNCHANGED <<pools, err, loading, prevStatusRef, firstLoadRef>>
             /\ cyc'[c].cues = <<>>
             /\ ~cyc'[c].diffed
             /\ cyc'[c].pc \in {"fetch", "done"}
             /\ cyc'[c].pc = "done" => cyc'[c].outcome = "dropped"]_vars

\* A call of a torn-down activation was dropped after its fetch settled.
C1_Witness ==
    \E c \in Cycles :
        /\ cyc[c].pc = "done"
        /\ cyc[c].outcome = "dropped"
        /\ cyc[c].act \in aborted
        /\ ~cyc[c].diffed

\* C2: at most one call of load of an activation is in flight (between its
\* fetch start and its commit, error or early return) at any time.
C2_OneCycleInFlight ==
    \A a \in Acts :
        Cardinality({c \in Cycles : InFlight(c) /\ cyc[c].act = a}) <= 1

\* C3: the first call of load of an activation to reach the diff step emits
\* no transition and makes no cue call; it commits in the same task.
C3_FirstDiffEmitsNothing ==
    [][\A c \in Cycles :
          (/\ ~cyc[c].diffed
           /\ cyc'[c].diffed
           /\ \A c2 \in Cycles : cyc[c2].act = cyc'[c].act => ~cyc[c2].diffed)
          => /\ cyc'[c].changes = <<>>
             /\ cyc'[c].cues = <<>>
             /\ cyc'[c].pc = "done"
             /\ cyc'[c].outcome = "committed"]_vars

\* The second activation's first diff ran after a failed call of its own,
\* over a snapshot the first activation had written.
C3_Witness ==
    \E c1, c2, c3 \in Cycles :
        /\ cyc[c1].act = 1 /\ cyc[c1].diffed
        /\ cyc[c2].act = 2 /\ cyc[c2].outcome = "failed" /\ ~cyc[c2].diffed
        /\ cyc[c3].act = 2 /\ cyc[c3].diffed /\ cyc[c3].changes = <<>>
        /\ c2 < c3

\* C6: a call of load that fails shows the error panel and leaves the
\* interval set; while an activation is alive its interval is set and a
\* failure of it stays on display, and every tick starts a call of load
\* that requests page 1 afresh.
C6_FailureShownTimerKept ==
    /\ [][\A c \in Cycles :
             (cyc[c].pc = "fetch" /\ cyc'[c].outcome = "failed")
             => /\ err' # ""
                /\ View' = "error"
                /\ timers' = timers
                /\ cyc[c].act \in timers']_vars
    /\ [](\A a \in alive : a \in timers)
    /\ []((\E c \in Cycles : cyc[c].outcome = "failed" /\ cyc[c].act \in alive)
          => View = "error")
    /\ [][Tick => /\ nCyc' = nCyc + 1
                  /\ cyc'[nCyc'].pc = "fetch"
                  /\ cyc'[nCyc'].act \in timers
                  /\ cyc'[nCyc'].f.all = <<>>
                  /\ cyc'[nCyc'].f.reqs = <<Request(1, cyc'[nCyc'].act)>>]_vars

\* A call of the live activation failed and a later call of the same
\* activation is fetching page 1 while the error panel is shown.
C6_Witness ==
    \E c1, c2 \in Cycles :
        /\ c1 < c2
        /\ cyc[c1].outcome = "failed" /\ ~cyc[c1].diffed
        /\ cyc[c1].act \in alive
        /\ cyc[c2].act = cyc[c1].act
        /\ cyc[c2].pc = "fetch" /\ cyc[c2].f.page = 1
        /\ View = "error"

\* What C8 asks of a step of call c: the call ends, without a diff, a
\* snapshot write, a cue call or setPools, and without a new request.
C8_EndsQuietly(c) ==
    /\ cyc'[c].pc = "done"
    /\ cyc'[c].outcome # "committed"
    /\ ~cyc'[c].diffed
    /\ cyc'[c].cues = <<>>
    /\ nCyc' = nCyc
    /\ UNCHANGED <<pools, prevStatusRef, firstLoadRef, audioCtx>>

\* C8: whenever a call of load awaits page k, a non-2xx or success=false
\* response makes fetchAllPools throw with no request added and nothing
\* returned, and every such step ends the call of load quietly.
C8_FailedPageEndsCycle ==
    \A c \in Cycles :
        cyc[c].pc = "fetch"
        => \A k \in {"http", "api"} :
              LET f2 == FetchOnResponse(cyc[c].f, Failure(k))
              IN /\ f2.status = "thrown"
                 /\ f2.error.message # ""
                 /\ f2.reqs = cyc[c].f.reqs
                 /\ f2.all = cyc[c].f.all
                 /\ ENABLED SettleWith(c, Failure(k))
                 /\ ~ENABLED (SettleWith(c, Failure(k)) /\ ~C8_EndsQuietly(c))

\* A call of load of the live activation ended on a failed page: it is
\* over, failed, it ran no diff, and the first-load flag is still set.
C8_Witness ==
    \E c \in Cycles :
        /\ cyc[c].pc = "done"
        /\ cyc[c].outcome = "failed"
        /\ ~cyc[c].diffed
        /\ cyc[c].act \in alive
        /\ err \in {ErrHTTP.message, ErrAPI.message}
        /\ firstLoadRef

(***************************************************************************)
(* Properties of the diff step.  In a step of SpecDiff that leaves         *)
(* firstLoadRef false, lastItems is the list of the previous poll of the   *)
(* activation, prevStatusRef the snapshot it left, lastItems' the list of  *)
(* this poll and lastEvents' what it emitted.                              *)
(***************************************************************************)
OfflineEventsFor(events, key) ==
    {i \in DOMAIN events : events[i].key = key /\ events[i].kind = "offline"}

EventsAt(events, pos) == {i \in DOMAIN events : events[i].pos = pos}

\* C4: in the second of two consecutive polls, an origin (the same place and
\* key in both lists) that went from true to false gets exactly one offline
\* event for its key, and an origin whose health did not change gets none;
\* for every pool list.
C4_OneOfflinePerTransition ==
    [][(~firstLoadRef /\ ~firstLoadRef')
       => LET A == Entries(lastItems)
              B == Entries(lastItems')
          IN \A j \in DOMAIN B :
                (j \in DOMAIN A /\ A[j].key = B[j].key)
                => /\ (A[j].cur = "true" /\ B[j].cur = "false")
                      => Cardinality(OfflineEventsFor(lastEvents', B[j].key)) = 1
                   /\ (A[j].cur = B[j].cur)
                      => EventsAt(lastEvents', j) = {}]_vars

\* C5: every event the diff step emits is for a key whose previous value is
\* a boolean and whose current value is a different boolean.
C5_EventsOnlyBetweenBooleans ==
    [][~firstLoadRef'
       => \A i \in DOMAIN lastEvents' :
             LET e    == lastEvents'[i]
                 prev == MapGet(prevStatusRef, e.key)
                 cur  == Entries(lastItems')[e.pos].cur
             IN prev \in Boolean /\ cur \in Boolean /\ prev # cur]_vars

(***************************************************************************)
(* Properties of fetchAllPools, over SpecFetch: call is the call, resps    *)
(* the responses it got so far, in order.                                  *)
(***************************************************************************)
RECURSIVE ConcatResults(_)
ConcatResults(rs) ==
    IF rs = <<>> THEN <<>> ELSE Head(rs).result \o ConcatResults(Tail(rs))

\* Every response so far succeeded and reported the same total_pages >= 1.
AllReportTotal(rs, n) ==
    /\ n >= 1
    /\ \A i \in 1..Len(rs) :
          rs[i].kind = "ok" /\ rs[i].hasTotal /\ rs[i].total_pages = n

\* Every response so far succeeded and omitted total_pages.
AllOmitTotal(rs) ==
    \A i \in 1..Len(rs) : rs[i].kind = "ok" /\ ~rs[i].hasTotal

RequestsInOrder(reqs) ==
    \A i \in 1..Len(reqs) : reqs[i].page = i /\ reqs[i].per_page = 50

\* C7: when every response of a call succeeds and reports total_pages = N,
\* N >= 1, the call asks for pages 1..N in order with per_page = 50, never
\* for more, and after the N-th response returns the N result arrays
\* concatenated in request order.
C7_TotalPagesRequestsAndConcat ==
    \A n \in 1..MaxPages :
        (resps # <<>> /\ AllReportTotal(resps, n))
        => /\ RequestsInOrder(call.reqs)
           /\ Len(call.reqs) <= n
           /\ call.status \in {"pending", "returned"}
           /\ call.status = "pending"
              => Len(resps) < n /\ Len(call.reqs) = Len(resps) + 1
           /\ call.status = "returned"
              => /\ Len(resps) = n
                 /\ Len(call.reqs) = n
                 /\ call.all = ConcatResults(resps)

\* A call returned after MaxPages pages, the first two full and the last
\* holding one pool.
C7_Witness ==
    /\ call.status = "returned"
    /\ AllReportTotal(resps, MaxPages)
    /\ Len(call.reqs) = MaxPages
    /\ Len(resps[1].result) = perPage
    /\ Len(resps[2].result) = perPage
    /\ Len(resps[MaxPages].result) = 1
    /\ Len(call.all) = 2 * perPage + 1

\* C9: when the server omits total_pages, a call goes on to the next page
\* after every full page, and returns only after a page of fewer than 50
\* items, with the items of all the pages it requested.
C9_OmittedTotalRunsToShortPage ==
    (resps # <<>> /\ AllOmitTotal(resps) /\ call.status = "returned")
    => /\ Len(resps[Len(resps)].result) < perPage
       /\ \A i \in 1..(Len(resps) - 1) : Len(resps[i].result) = perPage
       /\ call.all = ConcatResults(resps)

(***************************************************************************)
(* Properties of the notification, over SpecNotify.                        *)
(***************************************************************************)
\* The cues the events ask for: the offline ones, then the online ones.
ExpectedCues(changes) ==
    Repeat("offline", CountKind(changes, "offline"))
    \o Repeat("online", CountKind(changes, "online"))

IsPrefix(s, t) == Len(s) <= Len(t) /\ \A i \in 1..Len(s) : s[i] = t[i]

C11_OneToneAtATime == audioCtx = "running" => sounding <= 1

(***************************************************************************)
(* Properties of activation and teardown.                                  *)
(***************************************************************************)
\* C12: every page request of a call carries the signal of the call's
\* activation; only the newest activation can be alive, and one that is not
\* has its signal aborted and its interval cleared; a call of load starts
\* only for a live activation; every activation starts with an empty
\* snapshot and the first-load flag set; and the snapshot is written only
\* by that reset or by a diff of the live, newest activation, so a diff
\* never reads an entry written under an earlier activation.
C12_TeardownAbortsAndResets ==
    /\ [](\A c \in Cycles : \A i \in 1..Len(cyc[c].f.reqs) :
             cyc[c].f.reqs[i].signal = cyc[c].act)
    /\ [](/\ alive \subseteq {act}
          /\ timers = alive
          /\ aborted = (1..act) \ alive
          /\ firstLoadRef => prevStatusRef = EmptyMap)
    /\ [][\A c \in Cycles :
             (cyc[c].pc = "idle" /\ cyc'[c].pc # "idle")
             => cyc'[c].act \in alive' /\ cyc'[c].act \in timers']_vars
    /\ [][act' # act
          => /\ prevStatusRef' = EmptyMap
             /\ firstLoadRef'
             /\ alive' = {act'}
             /\ cyc'[nCyc'].act = act' /\ cyc'[nCyc'].pc = "fetch"
             /\ \A c \in Cycles : cyc[c].act # act']_vars
    /\ [][prevStatusRef' # prevStatusRef
          => \/ act' # act
             \/ \E c \in Cycles :
                   /\ ~cyc[c].diffed /\ cyc'[c].diffed
                   /\ cyc[c].act = act /\ act \in alive]_vars

\* Activation 1 wrote a snapshot and was torn down; its signal is aborted
\* and its interval cleared, and the first call of activation 2 is under
\* way over an empty snapshot with the first-load flag set.
C12_Witness ==
    \E c1, c2 \in Cycles :
        /\ cyc[c1].act = 1 /\ cyc[c1].diffed
        /\ cyc[c2].act = 2 /\ cyc[c2].pc = "fetch"
        /\ \A c \in Cycles : c # c2 => cyc[c].act # 2
        /\ 1 \in aborted /\ 1 \notin timers /\ 1 \notin alive
        /\ prevStatusRef = EmptyMap /\ firstLoadRef

(***************************************************************************)
(* Properties of the muted poll loop.                                      *)
(***************************************************************************)
\* C13: a call of load of an activation created with sound off never waits
\* on the audio context and makes no cue call; its diff step leaves the
\* audio context and the oscillators as they were, swaps the snapshot for
\* the map of the fetched list, records the events the diff gives, and
\* commits that list with setPools in the same task.
C13_MutedCycleSkipsAudio ==
    /\ [](\A c \in Cycles :
             (cyc[c].pc # "idle" /\ ~actSound[cyc[c].act])
             => /\ cyc[c].cues = <<>>
                /\ cyc[c].ret = 0
                /\ cyc[c].pc \in {"fetch", "done"})
    /\ [][\A c \in Cycles :
             (cyc[c].pc # "idle" /\ ~actSound[cyc[c].act]
              /\ ~cyc[c].diffed /\ cyc'[c].diffed)
             => LET d == DiffStep(prevStatusRef, firstLoadRef, pools')
                IN /\ UNCHANGED <<audioCtx, sounding>>
                   /\ prevStatusRef' = d.nextMap
                   /\ firstLoadRef' = FALSE
                   /\ cyc'[c].changes = Kinds(d.events)
                   /\ cyc'[c].pc = "done"
                   /\ cyc'[c].outcome = "committed"
                   /\ pools' # <<>>
                   /\ loading' = FALSE]_vars

\* A muted call of load whose diff gave events is committed without a cue.
C13_Witness ==
    \E c \in Cycles :
        /\ cyc[c].pc = "done"
        /\ ~actSound[cyc[c].act]
        /\ cyc[c].changes # <<>>
        /\ cyc[c].outcome = "committed"
        /\ cyc[c].cues = <<>>
        /\ audioCtx = "null"

(***************************************************************************)
(* Properties of the credential form, over SpecForm.                       *)
(***************************************************************************)
\* C14: the credentials handed to onSave have a non-empty token and an
\* accountId of length at least 10, whatever was typed, white space at the
\* ends included.
C14_SavedAccountIdAtLeast10 ==
    haveCreds => Len(creds.token) > 0 /\ Len(creds.accountId) >= 10

(***************************************************************************)
(* Properties of what is shown after a call of load ends.                  *)
(***************************************************************************)
\* C15: when a call of load of the live activation succeeds, the error
\* message is empty afterwards and the table is shown, also where an
\* earlier call of the activation had failed.
C15_SuccessClearsError ==
    [][\A c \in Cycles :
          (cyc[c].pc # "done" /\ cyc'[c].outcome = "committed"
           /\ cyc[c].act \in alive)
          => err' = "" /\ View' = "table"]_vars

\* C16: a call of load whose activation was torn down does nothing more,
\* wherever it stands: a step of it makes no cue call, starts no
\* oscillator, and does not reach setPools.
C16_TornDownCycleIsSilent ==
    [][\A c \in Cycles :
          (InFlight(c) /\ cyc[c].act \notin alive /\ cyc'[c] # cyc[c])
          => /\ cyc'[c].cues = cyc[c].cues
             /\ sounding' = sounding
             /\ cyc'[c].outcome # "committed"
             /\ pools' = pools]_vars

\* The key-to-health map of a pool list.
SnapshotOf(items) == DiffStep(EmptyMap, TRUE, items).nextMap

\* C17: whenever no call of load of the live activation stands between its
\* snapshot swap and its setPools, and a call of the live activation has
\* succeeded, the held snapshot is the key-to-health map of the rendered
\* pool list.
C17_SnapshotMatchesRenderedPools ==
    (/\ \A c \in Cycles :
           cyc[c].act \in alive => cyc[c].pc \notin {"resume", "beep"}
     /\ \E c \in Cycles :
           cyc[c].act \in alive /\ cyc[c].outcome = "committed")
    => prevStatusRef = SnapshotOf(pools)

(***************************************************************************)
(* More properties of the diff step, over SpecDiff.                        *)
(***************************************************************************)
\* C18: a poll that returns the same pool list as the previous poll of the
\* activation emits no transition event.
C18_SameListEmitsNothing ==
    [][(~firstLoadRef /\ ~firstLoadRef' /\ lastItems' = lastItems)
       => lastEvents' = <<>>]_vars

\* C19: after a diff step the held snapshot is the map of the list the
\* step ran on: its keys are the keys of the fetched origins and no other,
\* and each key maps to the health, undefined included, of the last
\* fetched origin with that key.
C19_SnapshotIsMapOfFetchedList ==
    ~firstLoadRef
    => LET E == Entries(lastItems)
       IN /\ DOMAIN prevStatusRef = {E[i].key : i \in DOMAIN E}
          /\ \A i \in DOMAIN E :
                (\A j \in DOMAIN E : j > i => E[j].key # E[i].key)
                => prevStatusRef[E[i].key] = E[i].cur

\* A diff step ran on two origins with the same key, the last one of
\* unknown health: the snapshot holds that one key, undefined.
C19_Witness ==
    /\ ~firstLoadRef
    /\ lastItems = <<Pool("p1", <<Origin("a", "x", "true"),
                                  Origin("a", "x", "undefined")>>)>>
    /\ DOMAIN prevStatusRef = {"p1/a"}
    /\ prevStatusRef["p1/a"] = "undefined"

(***************************************************************************)
(* Order of the steps of one call of load, over Spec.                      *)
(***************************************************************************)
\* C20: a call of load that still awaits a page has run no diff and made no
\* cue call; the diff step runs on the list fetchAllPools returned, last
\* page included, and swaps the snapshot in the same task; cue calls are
\* made only after it; and setPools is reached only after every cue call of
\* the call has returned.
C20_FetchDiffCuesThenSetPools ==
    /\ [](\A c \in Cycles :
             /\ cyc[c].pc = "fetch"
                => ~cyc[c].diffed /\ cyc[c].cues = <<>> /\ cyc[c].outcome = ""
             /\ cyc[c].cues # <<>> => cyc[c].diffed
             /\ cyc[c].pc \in {"resume", "beep"}
                => cyc[c].diffed /\ cyc[c].f.status = "returned"
             /\ cyc[c].outcome = "committed"
                => /\ cyc[c].diffed
                   /\ cyc[c].ret = Len(cyc[c].cues)
                   /\ cyc[c].cues =
                         IF Notifies(cyc[c].act, cyc[c].changes)
                         THEN ExpectedCues(cyc[c].changes) ELSE <<>>)
    /\ [][\A c \in Cycles :
             (~cyc[c].diffed /\ cyc'[c].diffed)
             => /\ cyc[c].pc = "fetch"
                /\ firstLoadRef' = FALSE
                /\ \E r \in Responses(cyc[c].act) :
                      LET f2 == FetchOnResponse(cyc[c].f, r)
                      IN /\ f2.status = "returned"
                         /\ f2.page >= TotalPages(r)
                         /\ f2.all = cyc[c].f.all \o r.result
                         /\ prevStatusRef' = SnapshotOf(f2.all)
                         /\ cyc'[c].outcome = "committed" => pools' = f2.all
                         /\ cyc'[c].pc = "resume" => cyc'[c].f = f2]_vars

\* A call of load fetched two pages, made the cue calls its events asked
\* for, all of which returned, and then set the two-page list.
C20_Witness ==
    \E c \in Cycles :
        /\ cyc[c].outcome = "committed"
        /\ cyc[c].cues # <<>>
        /\ cyc[c].cues = ExpectedCues(cyc[c].changes)
        /\ cyc[c].ret = Len(cyc[c].cues)
        /\ Len(pools) = 2
        /\ prevStatusRef = SnapshotOf(pools)

(***************************************************************************)
(* Frame of a failed fetch, over Spec.                                     *)
(***************************************************************************)
\* The ways a page request can fail: non-2xx, success=false, a rejected
\* fetch, and for an aborted signal the AbortError.
FailureKinds(a) ==
    {"http", "api", "net"} \cup (IF a \in aborted THEN {"abort"} ELSE {})

\* What C21 asks of a step: snapshot, first-load flag and rendered pools
\* are as before, and call c is over without a diff.
C21_FrameKept(c) ==
    /\ UNCHANGED <<prevStatusRef, firstLoadRef, pools>>
    /\ cyc'[c].pc = "done"
    /\ ~cyc'[c].diffed

\* C21: wherever a call of load awaits a page, each failure of that request
\* can happen and every step it leads to leaves the held snapshot, the
\* first-load flag and the rendered pool list unchanged; and every step in
\* which a call ends from its fetch without a diff leaves them unchanged,
\* so the next diff reads the snapshot and flag the last diff (or the
\* activation reset) left.
C21_FailedFetchKeepsSnapshot ==
    /\ [](\A c \in Cycles :
             cyc[c].pc = "fetch"
             => \A k \in FailureKinds(cyc[c].act) :
                   /\ ENABLED LoadOnResponse(c, Failure(k))
                   /\ ~ENABLED (LoadOnResponse(c, Failure(k))
                                /\ ~C21_FrameKept(c)))
    /\ [][\A c \in Cycles :
             (cyc[c].pc = "fetch" /\ cyc'[c].pc = "done" /\ ~cyc'[c].diffed)
             => UNCHANGED <<prevStatusRef, firstLoadRef, pools>>]_vars

\* A call of the live activation failed in its fetch after another had
\* succeeded: the snapshot is still the map of the rendered list and the
\* first-load flag is still cleared.
C21_Witness ==
    \E c1, c2 \in Cycles :
        /\ cyc[c1].act \in alive /\ cyc[c1].outcome = "committed"
        /\ cyc[c2].act = cyc[c1].act
        /\ cyc[c2].outcome = "failed" /\ ~cyc[c2].diffed
        /\ err \in {ErrHTTP.message, ErrAPI.message}
        /\ pools # <<>>
        /\ prevStatusRef = SnapshotOf(pools)
        /\ ~firstLoadRef

(***************************************************************************)
(* Termination of fetchAllPools, over SpecFetch2 (and SpecFetch).          *)
(***************************************************************************)
\* Every response so far reported a total_pages of at most n or none.
AllReportAtMost(rs, n) ==
    \A i \in 1..Len(rs) : rs[i].hasTotal => rs[i].total_pages <= n

\* C22: a call whose responses all report a total_pages of at most N, or
\* none, issues at least one and at most N requests, whatever the sizes of
\* the pages and however the reported total changes.
C22_AtMostNRequests ==
    \A n \in 1..MaxPages :
        (call.status # "idle" /\ AllReportAtMost(resps, n))
        => Len(call.reqs) >= 1 /\ Len(call.reqs) <= n

====
